---- MODULE Spec2Model ----
(***************************************************************************)
(* Deadline reminder scheduler of the CRM in src/app.py.                   *)
(*                                                                         *)
(* The model covers the SQLite task/user store as the web handlers and the *)
(* scheduler thread see it, the scan loop of check_reminders, the start    *)
(* guard start_reminder_thread and process termination.                    *)
(*                                                                         *)
(*   Spec         one lifetime of the process: main starts the loop, then  *)
(*                requests are served while the loop scans                 *)
(*   SpecRestart  Spec with the process terminated and started again       *)
(*   SpecGuard    start_reminder_thread called by several threads          *)
(*                                                                         *)
(* Time is counted in seconds of UTC+5 wall clock.  minutes_left in the    *)
(* code is total_seconds()/60, so "115 <= minutes_left" is modelled as     *)
(* "115*60 <= seconds_left".                                               *)
(***************************************************************************)
EXTENDS Integers, Sequences, FiniteSets, TLC

\* ------------------------------------------------------------------ bounds
MaxWebOps   == 2     \* web requests that write to the store
MaxCycles   == 3     \* scan cycles begun
MaxFailures == 1     \* statements of the loop that raise
MaxCrashes  == 1     \* process terminations
MaxUserId   == 8     \* ids of the users table the model follows
MaxPacedCycles == 135   \* cycles of a loop observed up to a task's deadline
NumCallers  == 2     \* threads calling start_reminder_thread per process

\* ------------------------------------------------------- program constants
SecPerMin == 60
W2hLo  == 115
W2hHi  == 125
W30mLo == 25
W30mHi == 35
W5mLo  == 3
W5mHi  == 7

\* ------------------------------------------------------------ value spaces
Null     == "NULL"
NoDeadline == 0 - 1     \* deadline IS NULL
NoUser   == [role |-> "none", telegram_chat_id |-> Null, username |-> Null]
                                                           \* no such row
NoTask   == [status |-> "none", assigned_to |-> 0, deadline |-> NoDeadline,
             reminder_2h_sent |-> FALSE, reminder_30m_sent |-> FALSE,
             reminder_5m_sent |-> FALSE]                    \* no such row
NoOwner  == 0
Chat     == "chat"
Thresholds == {"2h", "30m", "5m"}
TaskIds  == {1, 2}       \* ids the tasks AUTOINCREMENT hands out
UserIds  == 1..MaxUserId \* ids the users AUTOINCREMENT hands out
\* ids posted in the assigned_to field: the boss and the first xodim (id 2
\* is used up by the second init_db of the first start)
Assignees == {1, 3}
\* logins posted to /xodimlar, to /edit_xodim and to /change_profile
XodimNames == {"ali", "boss"}
EditNames  == {"ali", "vali"}
BossNames  == {"boss", "chief"}
Callers  == 1..NumCallers
MainCaller == 1          \* the call under if __name__ == '__main__'

NoProbe  == [wall |-> 0, now |-> 0]
TzKinds  == {"naive", "UTC+5", "UTC"}   \* tzinfo of a deadline read back

\* deadlines a manager may enter (seconds) and instants the clock may show
Deadlines == {130 * SecPerMin, 250 * SecPerMin}
Instants  == {0, 10 * SecPerMin, 100 * SecPerMin, 125 * SecPerMin,
              128 * SecPerMin}

VARIABLES
    users,        \* users table: id -> [role, telegram_chat_id, username] or NoUser
    tasks,        \* tasks table, committed rows: id -> record or NoTask
    nextTask,     \* AUTOINCREMENT of tasks
    nextUser,     \* AUTOINCREMENT of users
    token,        \* TELEGRAM_BOT_TOKEN is configured
    clock,        \* wall clock, seconds
    reminder_thread_started,
    reminder_lock,    \* holder of reminder_lock, NoOwner when free
    cpc,          \* position of every caller of start_reminder_thread
    loops,        \* check_reminders loops started in this process
    pc,           \* position of the check_reminders loop
    conn,         \* scheduler connection: "none", "open", "txn"
    staleLock,    \* an abandoned connection still holds the write lock
    pendingLock,  \* an abandoned connection whose commit failed holds the
                  \* PENDING lock: no connection can read the store
    uncommitted,  \* flag updates written in the open transaction
    now,          \* now read at the top of the cycle
    snapshot,     \* rows fetched by the cycle's SELECT
    idx,          \* index of the row the for loop is at
    curT,         \* threshold whose send just succeeded (pc = "update")
    cycles, failures, crashes, webops,     \* budget counters
    \* ---- observation (history) variables
    cycleSends,   \* sends invoked in the cycle of the latest SELECT, in order
    sentOK,       \* <<id, T>> with a successful send so far
    resent,       \* <<id, T>> sent again after a successful send
    okBeforeCrash,    \* <<id, T>> successful before the last termination
    resentAfterRestart, \* <<id, T>> of okBeforeCrash sent after restart
    pendingAtScan,    \* ids pending with a deadline at the latest SELECT
    sentNotPending,   \* ids sent while committed as completed or deleted
    failedPrev,       \* <<id, T>> whose send failed in the cycle of the
                      \* SELECT before the latest
    missedEver,       \* <<id, T>>: a scan read the task below T's window
                      \* with flag T false
    passEnd,          \* where the latest pass through the try block ended:
                      \* "commit", or the statement that raised ("get_db",
                      \* "select", "row", "commit_raise"); "running" while
                      \* the pass is in the block, "none" before the first
    editedWithFlag,   \* an edit/complete acted on a task with a flag set
    missed,           \* missedEver, for the deadline the task has now
    flaggedAtEdit,    \* <<id, T>>: flag T was set when edit_task changed
                      \* the task's deadline or assignee
    deletedUsers,     \* ids whose row delete_xodim removed
    \* ---- the deadline arithmetic applied to a chosen input
    probe,        \* [wall, now]: wall-clock value of a deadline, clock reading
    classified,   \* results of the scheduler's arithmetic, one per tzinfo
    overdueSeen   \* results of is_overdue, one per tzinfo

vars == <<users, tasks, nextTask, nextUser, token, clock,
          reminder_thread_started, reminder_lock, cpc, loops,
          pc, conn, staleLock, pendingLock, uncommitted, now, snapshot, idx,
          curT,
          cycles, failures, crashes, webops,
          cycleSends, sentOK, resent, okBeforeCrash, resentAfterRestart,
          pendingAtScan, sentNotPending, failedPrev, missedEver, passEnd,
          editedWithFlag, missed, flaggedAtEdit, deletedUsers,
          probe, classified, overdueSeen>>

progVars == <<users, tasks, nextTask, nextUser, token, clock,
              reminder_thread_started, reminder_lock, cpc, loops,
              pc, conn, staleLock, pendingLock, uncommitted, now, snapshot, idx,
          curT,
              cycles, failures, crashes, webops,
              cycleSends, sentOK, resent, okBeforeCrash, resentAfterRestart,
              pendingAtScan, sentNotPending, failedPrev, missedEver, passEnd,
              editedWithFlag, missed, flaggedAtEdit, deletedUsers>>
storeVars == <<users, tasks, nextTask, nextUser>>
guardVars == <<reminder_thread_started, reminder_lock, cpc, loops>>
loopVars  == <<pc, conn, staleLock, pendingLock, uncommitted, now, snapshot, idx,
          curT,
               cycles>>
zoneVars  == <<probe, classified, overdueSeen>>
auxVars   == <<zoneVars, flaggedAtEdit, deletedUsers>>
sentVars  == <<cycleSends, sentOK, resent, okBeforeCrash, resentAfterRestart,
               pendingAtScan, sentNotPending, failedPrev, missedEver>>
histVars  == <<sentVars, passEnd>>

\* ------------------------------------------------------------------ store
\* an INSERT that stores the 2-hour reminder as already sent
NewTaskFlagSet(a, d) ==
    [status |-> "pending", assigned_to |-> a, deadline |-> d,
     reminder_2h_sent |-> TRUE, reminder_30m_sent |-> FALSE,
     reminder_5m_sent |-> FALSE]

\* INSERT INTO tasks (title, description, assigned_to, deadline): status and
\* the three flags take their column defaults
NewTask(a, d) ==
    [status |-> "pending", assigned_to |-> a, deadline |-> d,
     reminder_2h_sent |-> FALSE, reminder_30m_sent |-> FALSE,
     reminder_5m_sent |-> FALSE]

Flag(r, T) ==
    CASE T = "2h"  -> r.reminder_2h_sent
      [] T = "30m" -> r.reminder_30m_sent
      [] T = "5m"  -> r.reminder_5m_sent

\* u.telegram_chat_id of the LEFT JOIN: NULL when the user row is missing
JoinChat(us, a) ==
    IF a \in DOMAIN us /\ us[a] # NoUser THEN us[a].telegram_chat_id ELSE Null

\* a query that does not filter on the status
SelectWhereAnyStatus(t) == t.deadline # NoDeadline

\* WHERE t.status = 'pending' AND t.deadline IS NOT NULL
SelectWhere(t) == t.status = "pending" /\ t.deadline # NoDeadline

Row(ts, us, i) ==
    [id |-> i, deadline |-> ts[i].deadline,
     telegram_chat_id |-> JoinChat(us, ts[i].assigned_to),
     reminder_2h_sent |-> ts[i].reminder_2h_sent,
     reminder_30m_sent |-> ts[i].reminder_30m_sent,
     reminder_5m_sent |-> ts[i].reminder_5m_sent]

RECURSIVE RowsFrom(_, _, _)
RowsFrom(ts, us, i) ==
    IF i \notin TaskIds THEN <<>>
    ELSE IF ts[i] # NoTask /\ SelectWhere(ts[i])
         THEN <<Row(ts, us, i)>> \o RowsFrom(ts, us, i + 1)
         ELSE RowsFrom(ts, us, i + 1)

\* a join that yields every task row twice
SnapshotFanOut(ts, us) == RowsFrom(ts, us, 1) \o RowsFrom(ts, us, 1)

\* an inner join: tasks whose user row is missing are not returned
SnapshotInnerJoin(ts, us) ==
    SelectSeq(RowsFrom(ts, us, 1),
              LAMBDA r : /\ ts[r.id].assigned_to \in DOMAIN us
                         /\ us[ts[r.id].assigned_to] # NoUser)

\* the SELECT of check_reminders: one row per pending task with a deadline
Snapshot(ts, us) == RowsFrom(ts, us, 1)

\* ------------------------------------------------------------- scheduler
\* UZB_TIMEZONE = timezone(timedelta(hours=5)): the offset in seconds
UZB_TIMEZONE == 5 * 3600
UTC == 0

\* A datetime: the wall-clock value it shows (seconds) and its tzinfo, which
\* is None (aware = FALSE) or a fixed offset from UTC.
Naive(w)      == [wall |-> w, aware |-> FALSE, utcoffset |-> 0]
Aware(w, off) == [wall |-> w, aware |-> TRUE, utcoffset |-> off]

\* d.replace(tzinfo=tz): the same wall-clock value, tagged with tz
replace_tzinfo(d, off) == [wall |-> d.wall, aware |-> TRUE, utcoffset |-> off]

\* the instant an aware datetime denotes; aware datetimes are compared and
\* subtracted by instant
Instant(d) == d.wall - d.utcoffset

\* datetime.now(UZB_TIMEZONE) when the clock of the zone shows n
get_uzb_now(n) == Aware(n, UZB_TIMEZONE)

\* a naive deadline taken as UTC
DeadlineAssumedUTC(d) == IF d.aware THEN d ELSE replace_tzinfo(d, UTC)

\* if deadline.tzinfo is None: deadline = deadline.replace(tzinfo=UZB_TIMEZONE)
DeadlineInZone(d) == IF d.aware THEN d ELSE replace_tzinfo(d, UZB_TIMEZONE)

\* time_left = deadline - now, as total_seconds()
time_left(deadline, nw) == Instant(DeadlineInZone(deadline)) - Instant(nw)

\* is_overdue(deadline), with the now it reads
is_overdue(deadline, nw) ==
    IF deadline.wall = NoDeadline THEN FALSE
    ELSE Instant(DeadlineInZone(deadline)) < Instant(nw)

\* The store returns deadlines as the naive datetimes add_task and edit_task
\* parsed from the form; n is the clock of the zone read at the top of the
\* cycle.
SecondsLeft(row, n) == time_left(Naive(row.deadline), get_uzb_now(n))


\* a 2-hour window that excludes its upper bound
In2hExclusive(s) == W2hLo * SecPerMin <= s /\ s < W2hHi * SecPerMin

In2h(s)  == W2hLo * SecPerMin <= s /\ s <= W2hHi * SecPerMin
In30m(s) == W30mLo * SecPerMin <= s /\ s <= W30mHi * SecPerMin
\* a 5-minute window without its lower bound
In5mNoLowerBound(s) == s <= W5mHi * SecPerMin

\* a 5-minute window of 4 to 6 minutes
In5mNarrow(s) == 4 * SecPerMin <= s /\ s <= 6 * SecPerMin

In5m(s)  == W5mLo * SecPerMin <= s /\ s <= W5mHi * SecPerMin

WindowLo(T) ==
    CASE T = "2h"  -> W2hLo
      [] T = "30m" -> W30mLo
      [] T = "5m"  -> W5mLo

\* rows of a snapshot read at n that are past window T with flag T false
PastWindow(rows, n) ==
    {<<rows[p[1]].id, p[2]>> :
        p \in {q \in (DOMAIN rows) \X Thresholds :
                  /\ SecondsLeft(rows[q[1]], n) < WindowLo(q[2]) * SecPerMin
                  /\ ~Flag(rows[q[1]], q[2])}}

\* skips only rows without a deadline
SkipNoAddressCheck(row) == row.deadline = NoDeadline

\* if not task['deadline'] or not task['telegram_chat_id']: continue
Skip(row) == row.deadline = NoDeadline \/ row.telegram_chat_id = Null

\* a chain in which a reminder waits for the earlier ones: 30m needs 2h sent,
\* 5m needs 30m sent
BranchInOrder(row, n) ==
    LET s == SecondsLeft(row, n) IN
    IF In2h(s) /\ ~row.reminder_2h_sent THEN "2h"
    ELSE IF In30m(s) /\ ~row.reminder_30m_sent /\ row.reminder_2h_sent
         THEN "30m"
    ELSE IF In5m(s) /\ ~row.reminder_5m_sent /\ row.reminder_30m_sent
         THEN "5m"
    ELSE Null

\* a chain that tests the windows only
BranchIgnoringFlags(row, n) ==
    LET s == SecondsLeft(row, n) IN
    IF In2h(s) THEN "2h"
    ELSE IF In30m(s) THEN "30m"
    ELSE IF In5m(s) THEN "5m"
    ELSE Null

\* the if / elif / elif chain: the threshold whose send is invoked, or Null
Branch(row, n) ==
    LET s == SecondsLeft(row, n) IN
    IF In2h(s) /\ ~row.reminder_2h_sent THEN "2h"
    ELSE IF In30m(s) /\ ~row.reminder_30m_sent THEN "30m"
    ELSE IF In5m(s) /\ ~row.reminder_5m_sent THEN "5m"
    ELSE Null

Candidate(row, n) == IF Skip(row) THEN Null ELSE Branch(row, n)

\* a send that does not look at the token
send_telegram_message_any_token(chat_id, channel) ==
    IF chat_id = Null THEN FALSE ELSE channel

\* send_telegram_message: False without token or chat id, else the channel's
\* answer (status 200, or False when the HTTP call raises)
send_telegram_message(chat_id, channel) ==
    IF ~token \/ chat_id = Null THEN FALSE ELSE channel

\* marks the flag whatever the send returned
MarkAlways(ok) == TRUE

\* if send_telegram_message(...): conn.execute('UPDATE ...')
MarkOnSend(ok) == ok


\* a write-back of the row as the cycle read it: a task marked in this cycle
\* is pending again
ApplyFlagsWholeRow(ts, keys) ==
    [i \in TaskIds |->
        IF ts[i] = NoTask THEN NoTask
        ELSE [ts[i] EXCEPT
                !.status = IF \E T \in Thresholds : <<i, T>> \in keys
                           THEN "pending" ELSE @,
                !.reminder_2h_sent  = @ \/ <<i, "2h">> \in keys,
                !.reminder_30m_sent = @ \/ <<i, "30m">> \in keys,
                !.reminder_5m_sent  = @ \/ <<i, "5m">> \in keys]]

\* an UPDATE that sets the three flag columns of the row together
ApplyFlagsAllColumns(ts, keys) ==
    [i \in TaskIds |->
        IF ts[i] = NoTask THEN NoTask
        ELSE LET hit == \E T \in Thresholds : <<i, T>> \in keys
             IN [ts[i] EXCEPT !.reminder_2h_sent  = @ \/ hit,
                              !.reminder_30m_sent = @ \/ hit,
                              !.reminder_5m_sent  = @ \/ hit]]

\* the cycle's pending writes applied at commit; a row that no longer exists
\* is left alone (UPDATE ... WHERE id = ? matches nothing)
ApplyFlags(ts, keys) ==
    [i \in TaskIds |->
        IF ts[i] = NoTask THEN NoTask
        ELSE [ts[i] EXCEPT
                !.reminder_2h_sent  = @ \/ <<i, "2h">> \in keys,
                !.reminder_30m_sent = @ \/ <<i, "30m">> \in keys,
                !.reminder_5m_sent  = @ \/ <<i, "5m">> \in keys]]

FailedKeys(log) == {<<log[k].id, log[k].T>> : k \in {j \in DOMAIN log : ~log[j].ok}}

\* ------------------------------------------------------------------- Init
\* the default boss init_db inserts
BossRow == [role |-> "boss", telegram_chat_id |-> Null, username |-> "boss"]

\* the row /xodimlar inserts
XodimRow(name, chat) ==
    [role |-> "xodim", telegram_chat_id |-> chat, username |-> name]

\* SELECT * FROM users WHERE username = ? returns a row
NameTaken(us, name) ==
    \E u \in DOMAIN us : us[u] # NoUser /\ us[u].username = name

\* init_db on a store db = [users, nextUser]: INSERT OR IGNORE INTO users of
\* the default boss.  The insert takes the next id of the AUTOINCREMENT
\* sequence whether or not the UNIQUE username makes it an ignored one.
init_db(db) ==
    [users |-> IF NameTaken(db.users, "boss") \/ db.nextUser \notin UserIds
               THEN db.users
               ELSE [db.users EXCEPT ![db.nextUser] = BossRow],
     nextUser |-> db.nextUser + 1]

\* no crm.db file
NoStore == [users |-> [u \in UserIds |-> NoUser], nextUser |-> 1]

\* python app.py with no crm.db: init_db runs at import, the file being
\* missing, and again under __main__
FirstStart == init_db(init_db(NoStore))

\* the first lifetime's store after /xodimlar has added a user with an address
RunningStore ==
    [users |-> [FirstStart.users EXCEPT
                   ![FirstStart.nextUser] = XodimRow("ali", Chat)],
     nextUser |-> FirstStart.nextUser + 1]

\* python app.py on the crm.db an earlier lifetime left with that user
SecondStart == init_db(RunningStore)

\* __main__ has run init_db() and is about to call start_reminder_thread
Init ==
    /\ \E db \in {FirstStart, SecondStart} :
          users = db.users /\ nextUser = db.nextUser
    /\ tasks = [i \in TaskIds |-> NoTask]
    /\ nextTask = 1
    /\ token = TRUE
    /\ clock = 0
    /\ reminder_thread_started = FALSE
    /\ reminder_lock = NoOwner
    /\ cpc = [c \in Callers |-> "call"]
    /\ loops = 0
    /\ pc = "idle"
    /\ conn = "none"
    /\ staleLock = FALSE
    /\ pendingLock = FALSE
    /\ uncommitted = {}
    /\ now = 0
    /\ snapshot = <<>>
    /\ idx = 1
    /\ curT = Null
    /\ cycles = 0 /\ failures = 0 /\ crashes = 0 /\ webops = 0
    /\ cycleSends = <<>>
    /\ sentOK = {} /\ resent = {}
    /\ okBeforeCrash = {} /\ resentAfterRestart = {}
    /\ pendingAtScan = {}
    /\ sentNotPending = {}
    /\ failedPrev = {}
    /\ passEnd = "none"
    /\ missedEver = {} /\ missed = {}
    /\ editedWithFlag = FALSE
    /\ flaggedAtEdit = {}
    /\ deletedUsers = {}
    /\ probe = NoProbe /\ classified = {} /\ overdueSeen = {}

\* ------------------------------------------------- start_reminder_thread
\* acquires without waiting for the holder
LockFreeNoLock == TRUE

\* with reminder_lock: the caller blocks until the lock is free
LockFree == reminder_lock = NoOwner

start_reminder_thread_acquire(c) ==
    /\ cpc[c] = "call"
    /\ LockFree
    /\ reminder_lock' = c
    /\ cpc' = [cpc EXCEPT ![c] = "test"]
    /\ UNCHANGED <<storeVars, token, clock, reminder_thread_started, loops,
                   loopVars, failures, crashes, webops, histVars,
                   editedWithFlag, missed>>
    /\ UNCHANGED auxVars

\* if not reminder_thread_started
start_reminder_thread_test(c) ==
    /\ cpc[c] = "test"
    /\ IF ~reminder_thread_started
       THEN /\ cpc' = [cpc EXCEPT ![c] = "start"]
            /\ UNCHANGED reminder_lock
       ELSE /\ cpc' = [cpc EXCEPT ![c] = "done"]
            /\ reminder_lock' = NoOwner
    /\ UNCHANGED <<storeVars, token, clock, reminder_thread_started, loops,
                   loopVars, failures, crashes, webops, histVars,
                   editedWithFlag, missed>>
    /\ UNCHANGED auxVars

\* thread = threading.Thread(target=check_reminders); thread.start()
start_reminder_thread_start(c) ==
    /\ cpc[c] = "start"
    /\ cpc' = [cpc EXCEPT ![c] = "set"]
    /\ loops' = loops + 1
    /\ pc' = IF pc = "idle" THEN "top" ELSE pc
    /\ UNCHANGED <<storeVars, token, clock, reminder_thread_started,
                   reminder_lock, conn, staleLock, pendingLock, uncommitted, now, snapshot,
                   idx, curT,
                   cycles, failures, crashes, webops, histVars,
                   editedWithFlag, missed>>
    /\ UNCHANGED auxVars

\* the flag when it is assigned before thread.start() is called
StartedSetBeforeStart(b) == TRUE

\* the flag when thread.start() raises: the assignment that follows the
\* call is not reached
StartedAfterRaise(b) == b

\* thread.start() raises (no thread can be created): the with block releases
\* the lock and the exception leaves the function
start_reminder_thread_raise(c) ==
    /\ cpc[c] = "start"
    /\ cpc' = [cpc EXCEPT ![c] = "raised"]
    /\ reminder_lock' = NoOwner
    /\ reminder_thread_started' = StartedAfterRaise(reminder_thread_started)
    /\ UNCHANGED <<storeVars, token, clock, loops,
                   loopVars, failures, crashes, webops, histVars,
                   editedWithFlag, missed>>
    /\ UNCHANGED auxVars

\* reminder_thread_started = True, end of the with block
start_reminder_thread_set(c) ==
    /\ cpc[c] = "set"
    /\ reminder_thread_started' = TRUE
    /\ reminder_lock' = NoOwner
    /\ cpc' = [cpc EXCEPT ![c] = "done"]
    /\ UNCHANGED <<storeVars, token, clock, loops, loopVars, failures,
                   crashes, webops, histVars, editedWithFlag, missed>>
    /\ UNCHANGED auxVars

\* a store in which the writes of an abandoned transaction take effect
AppliedOnAbandon(ts, keys) ==
    [i \in DOMAIN ts |->
        IF ts[i] = NoTask THEN ts[i]
        ELSE [ts[i] EXCEPT
                 !.reminder_2h_sent  = @ \/ <<i, "2h">> \in keys,
                 !.reminder_30m_sent = @ \/ <<i, "30m">> \in keys,
                 !.reminder_5m_sent  = @ \/ <<i, "5m">> \in keys]]

\* The store after a connection is abandoned with its transaction open:
\* the transaction is never committed and sqlite discards its writes.
RolledBack(ts, keys) == ts

\* --------------------------------------------------------- check_reminders
IsPending(ts, i) == ts[i] # NoTask /\ ts[i].status = "pending"

\* conn = get_db()
\* Rebinding conn abandons the connection of an aborted cycle without closing
\* it.  Its open transaction is never committed; the locks it holds are
\* released only when the interpreter collects the object (gc_collect),
\* which may happen before the SELECT that follows has given up.
GetDb(limit) ==
    /\ pc = "top"
    /\ cycles < limit
    /\ cycles' = cycles + 1
    /\ conn' = "open"
    /\ staleLock' = (staleLock \/ conn = "txn")
    /\ uncommitted' = {}
    /\ tasks' = RolledBack(tasks, uncommitted)
    /\ pc' = "select"
    /\ passEnd' = "running"
    /\ UNCHANGED <<users, nextTask, nextUser, token, clock, guardVars,
                   pendingLock, now, snapshot, idx, curT, failures,
                   crashes, webops, sentVars, editedWithFlag, missed>>
    /\ UNCHANGED auxVars

\* the first statement of a cycle of a loop observed for MaxCycles cycles
check_reminders_get_db == GetDb(MaxCycles)

\* print(f"Reminder xato: {e}") raises inside the except clause (stdout is a
\* pipe whose reader has gone): the exception leaves check_reminders and the
\* thread ends
AfterExceptExit == "exited"

\* an except clause that goes round the loop again without sleeping
AfterExceptRetry == "top"

\* except Exception as e: print(...) returns; control falls through to
\* time.sleep(60)
AfterExcept == "sleeping"

\* The except clause of the loop.  Its print returns and the loop goes to
\* sleep with conn as the pass left it, or its print raises and the thread
\* ends: the connection the thread had bound is abandoned without being
\* closed, like one abandoned by rebinding conn, and keeps its locks until
\* the interpreter collects it.
ExceptClause ==
    \/ /\ pc' = AfterExcept
       /\ UNCHANGED <<conn, staleLock, uncommitted>>
    \/ /\ pc' = AfterExceptExit
       /\ conn' = "none"
       /\ staleLock' = (staleLock \/ conn = "txn")
       /\ uncommitted' = {}

\* conn = get_db() raises (sqlite3.connect cannot open the file).  The
\* statement is inside the try: conn, now and tasks keep what the cycle before
\* bound them to, no SELECT runs and control is in the except clause.  The
\* rows and sends of the pass before stay as they were.
check_reminders_get_db_raise ==
    /\ pc = "top"
    /\ cycles < MaxCycles
    /\ failures < MaxFailures
    /\ cycles' = cycles + 1
    /\ failures' = failures + 1
    /\ passEnd' = "get_db"
    /\ ExceptClause
    /\ UNCHANGED <<storeVars, token, clock, guardVars,
                   pendingLock, now, snapshot, idx, curT,
                   crashes, webops, sentVars, editedWithFlag, missed>>
    /\ UNCHANGED auxVars

\* now = get_uzb_now(); tasks = conn.execute(SELECT).fetchall()
\* The SELECT returns rows unless an abandoned connection holds the PENDING
\* lock of a commit that failed.
check_reminders_select ==
    /\ pc = "select"
    /\ ~pendingLock
    /\ now' = clock
    /\ snapshot' = Snapshot(tasks, users)
    /\ idx' = 1
    /\ curT' = Null
    /\ pc' = "loop"
    /\ cycleSends' = <<>>
    /\ failedPrev' = FailedKeys(cycleSends)
    /\ pendingAtScan' = {i \in TaskIds : IsPending(tasks, i)}
    /\ missedEver' = missedEver \cup PastWindow(Snapshot(tasks, users), clock)
    /\ missed' = missed \cup PastWindow(Snapshot(tasks, users), clock)
    /\ UNCHANGED <<storeVars, token, clock, guardVars, conn, staleLock,
                   pendingLock, uncommitted, cycles, failures, crashes,
                   webops, sentOK, resent, okBeforeCrash, resentAfterRestart,
                   sentNotPending, passEnd, editedWithFlag>>
    /\ UNCHANGED auxVars

\* the SELECT raises (always "database is locked" while an abandoned
\* connection holds the PENDING lock): except prints, the loop goes to sleep
\* with conn open
check_reminders_select_raise ==
    /\ pc = "select"
    /\ pendingLock \/ failures < MaxFailures
    /\ failures' = IF pendingLock THEN failures ELSE failures + 1
    /\ now' = clock
    /\ snapshot' = <<>>
    /\ idx' = 1
    /\ curT' = Null
    /\ passEnd' = "select"
    /\ ExceptClause
    /\ cycleSends' = <<>>
    /\ failedPrev' = FailedKeys(cycleSends)
    /\ pendingAtScan' = {}
    /\ UNCHANGED <<storeVars, token, clock, guardVars,
                   pendingLock, cycles, crashes,
                   webops, sentOK, resent, okBeforeCrash, resentAfterRestart,
                   sentNotPending, missedEver, editedWithFlag, missed>>
    /\ UNCHANGED auxVars

\* a row that is skipped or matches no branch: next row
check_reminders_skip ==
    /\ pc = "loop"
    /\ idx <= Len(snapshot)
    /\ Candidate(snapshot[idx], now) = Null
    /\ idx' = idx + 1
    /\ UNCHANGED <<storeVars, token, clock, guardVars, pc, conn, staleLock, pendingLock,
                   uncommitted, now, snapshot, curT, cycles, failures, crashes,
                   webops, histVars, editedWithFlag, missed>>
    /\ UNCHANGED auxVars

\* a row whose branch calls send_telegram_message
check_reminders_send ==
    /\ pc = "loop"
    /\ idx <= Len(snapshot)
    /\ LET row == snapshot[idx]
           T   == Candidate(row, now)
           key == <<row.id, T>>
       IN /\ T # Null
          /\ \E channel \in BOOLEAN :
               LET ok == send_telegram_message(row.telegram_chat_id, channel)
               IN /\ cycleSends' = Append(cycleSends,
                                          [id |-> row.id, T |-> T, ok |-> ok])
                  /\ sentOK' = IF ok THEN sentOK \cup {key} ELSE sentOK
                  /\ IF MarkOnSend(ok)
                     THEN pc' = "update" /\ curT' = T /\ idx' = idx
                     ELSE pc' = "loop" /\ curT' = Null /\ idx' = idx + 1
          /\ resent' = IF key \in sentOK THEN resent \cup {key} ELSE resent
          /\ resentAfterRestart' =
                IF key \in okBeforeCrash THEN resentAfterRestart \cup {key}
                ELSE resentAfterRestart
          /\ sentNotPending' =
                IF IsPending(tasks, row.id) THEN sentNotPending
                ELSE sentNotPending \cup {row.id}
    /\ UNCHANGED <<storeVars, token, clock, guardVars, conn, staleLock, pendingLock,
                   uncommitted, now, snapshot, cycles, failures, crashes,
                   webops, okBeforeCrash, pendingAtScan, failedPrev,
                   missedEver, passEnd,
                   editedWithFlag, missed>>
    /\ UNCHANGED auxVars

\* a row whose branch calls send_telegram_message: the HTTP call raises and
\* the print of the function's own except clause (line 155) raises too, so
\* the exception leaves send_telegram_message and the for loop
check_reminders_send_raise ==
    /\ pc = "loop"
    /\ idx <= Len(snapshot)
    /\ token
    /\ failures < MaxFailures
    /\ LET row == snapshot[idx]
           T   == Candidate(row, now)
           key == <<row.id, T>>
       IN /\ T # Null
          /\ cycleSends' = Append(cycleSends,
                                  [id |-> row.id, T |-> T, ok |-> FALSE])
          /\ resent' = IF key \in sentOK THEN resent \cup {key} ELSE resent
          /\ resentAfterRestart' =
                IF key \in okBeforeCrash THEN resentAfterRestart \cup {key}
                ELSE resentAfterRestart
          /\ sentNotPending' =
                IF IsPending(tasks, row.id) THEN sentNotPending
                ELSE sentNotPending \cup {row.id}
    /\ failures' = failures + 1
    /\ curT' = Null
    /\ passEnd' = "row"
    /\ ExceptClause
    /\ UNCHANGED <<storeVars, token, clock, guardVars, pendingLock,
                   now, snapshot, idx, cycles, crashes, webops, sentOK,
                   okBeforeCrash, pendingAtScan, failedPrev, missedEver,
                   editedWithFlag, missed>>
    /\ UNCHANGED auxVars

\* an UPDATE that records a write whether or not the row exists
UpdatedRowsAnyId(ts, keys, id, T) == keys \cup {<<id, T>>}

\* UPDATE tasks SET reminder_X_sent = 1 WHERE id = ?: writes the row with
\* that id, nothing when there is none
UpdatedRows(ts, keys, id, T) ==
    IF ts[id] # NoTask THEN keys \cup {<<id, T>>} ELSE keys

\* conn.execute('UPDATE tasks SET reminder_X_sent = 1 WHERE id = ?'): opens
\* the cycle's write transaction; nothing is committed yet
check_reminders_update ==
    /\ pc = "update"
    /\ ~staleLock
    /\ uncommitted' = UpdatedRows(tasks, uncommitted, snapshot[idx].id, curT)
    /\ conn' = "txn"
    /\ idx' = idx + 1
    /\ curT' = Null
    /\ pc' = "loop"
    /\ UNCHANGED <<storeVars, token, clock, guardVars, staleLock, pendingLock, now,
                   snapshot, cycles, failures, crashes, webops, histVars,
                   editedWithFlag, missed>>
    /\ UNCHANGED auxVars

\* the UPDATE raises (always "database is locked" while an abandoned
\* connection holds the lock): the exception leaves the for loop, except
\* prints, the loop goes to sleep; commit and close are not reached
check_reminders_update_raise ==
    /\ pc = "update"
    /\ staleLock \/ failures < MaxFailures
    /\ failures' = IF staleLock THEN failures ELSE failures + 1
    /\ curT' = Null
    /\ passEnd' = "row"
    /\ ExceptClause
    /\ UNCHANGED <<storeVars, token, clock, guardVars, pendingLock,
                   now, snapshot, idx, cycles, crashes, webops,
                   cycleSends, sentOK,
                   resent, okBeforeCrash, resentAfterRestart, pendingAtScan,
                   sentNotPending, failedPrev, missedEver,
                   editedWithFlag, missed>>
    /\ UNCHANGED auxVars

\* end of the for loop: conn.commit(); conn.close()
check_reminders_commit ==
    /\ pc = "loop"
    /\ idx > Len(snapshot)
    /\ tasks' = ApplyFlags(tasks, uncommitted)
    /\ uncommitted' = {}
    /\ conn' = "none"
    /\ pc' = "sleeping"
    /\ passEnd' = "commit"
    /\ UNCHANGED <<users, nextTask, nextUser, token, clock, guardVars,
                   staleLock, pendingLock, now, snapshot, idx, curT, cycles, failures,
                   crashes, webops, sentVars, editedWithFlag, missed>>
    /\ UNCHANGED auxVars

\* conn.commit() raises: close is not reached.  A commit of written rows
\* that fails leaves the connection with its transaction and the PENDING
\* lock it took for the commit.
check_reminders_commit_raise ==
    /\ pc = "loop"
    /\ idx > Len(snapshot)
    /\ failures < MaxFailures
    /\ failures' = failures + 1
    /\ pendingLock' = (pendingLock \/ conn = "txn")
    /\ passEnd' = "commit_raise"
    /\ ExceptClause
    /\ UNCHANGED <<storeVars, token, clock, guardVars,
                   now, snapshot, idx, curT, cycles, crashes,
                   webops, sentVars, editedWithFlag, missed>>
    /\ UNCHANGED auxVars

\* the argument of time.sleep, in seconds
SleepSeconds == 60

\* time.sleep(60) returns: the clock has moved on
check_reminders_wake ==
    /\ pc = "sleeping"
    /\ \E t \in Instants : t >= clock + SleepSeconds /\ clock' = t
    /\ pc' = "top"
    /\ UNCHANGED <<storeVars, token, guardVars, conn, staleLock, pendingLock, uncommitted,
                   now, snapshot, idx, curT, cycles, failures, crashes, webops,
                   histVars, editedWithFlag, missed>>
    /\ UNCHANGED auxVars

\* the interpreter collects an abandoned connection: sqlite closes it, the
\* open transaction is rolled back and its locks are released
gc_collect ==
    /\ staleLock
    /\ staleLock' = FALSE
    /\ pendingLock' = FALSE
    /\ UNCHANGED <<storeVars, token, clock, guardVars, pc, conn, uncommitted,
                   now, snapshot, idx, curT, cycles, failures, crashes, webops,
                   histVars, editedWithFlag, missed>>
    /\ UNCHANGED auxVars

\* time passing before the process is started (again)
Tick ==
    /\ pc = "idle"
    /\ \A c \in Callers : cpc[c] = "call"
    /\ \E t \in Instants : t > clock /\ clock' = t
    /\ UNCHANGED <<storeVars, token, guardVars, loopVars, failures, crashes,
                   webops, histVars, editedWithFlag, missed>>
    /\ UNCHANGED auxVars

\* the process is terminated and started again: module state is fresh, the
\* store keeps what was committed and __main__ runs init_db() on it
Restart ==
    /\ crashes < MaxCrashes
    /\ nextUser \in UserIds
    /\ crashes' = crashes + 1
    /\ users' = init_db([users |-> users, nextUser |-> nextUser]).users
    /\ nextUser' = init_db([users |-> users, nextUser |-> nextUser]).nextUser
    /\ reminder_thread_started' = FALSE
    /\ reminder_lock' = NoOwner
    /\ cpc' = [c \in Callers |-> "call"]
    /\ loops' = 0
    /\ pc' = "idle"
    /\ conn' = "none"
    /\ staleLock' = FALSE
    /\ pendingLock' = FALSE
    /\ uncommitted' = {}
    /\ snapshot' = <<>>
    /\ idx' = 1
    /\ curT' = Null
    /\ cycleSends' = <<>>
    /\ failedPrev' = {}
    /\ passEnd' = "none"
    /\ pendingAtScan' = {}
    /\ okBeforeCrash' = sentOK
    /\ UNCHANGED <<tasks, nextTask, token, clock, now, cycles, failures, webops,
                   sentOK, resent, resentAfterRestart, sentNotPending,
                   missedEver,
                   editedWithFlag, missed>>
    /\ UNCHANGED auxVars

\* ------------------------------------------------------------ web handlers
\* A handler's INSERT/UPDATE/DELETE needs the store's write lock.  While a
\* scheduler connection has a transaction open the statement times out with
\* "database is locked" and the request changes nothing.
StoreWritable == conn # "txn" /\ ~staleLock

\* requests are served by app.run, which __main__ reaches after
\* start_reminder_thread has returned
Serving == cpc[MainCaller] = "done"

AnyFlag(r) == r.reminder_2h_sent \/ r.reminder_30m_sent \/ r.reminder_5m_sent

webFrame == <<token, clock, guardVars, loopVars, failures, crashes, histVars>>

\* POST /xodimlar: INSERT INTO users (..., 'xodim', ..., telegram_chat_id or None)
\* a login that is taken raises IntegrityError and nothing is stored
xodimlar(name, chat) ==
    /\ Serving /\ webops < MaxWebOps /\ StoreWritable
    /\ nextUser \in UserIds
    /\ ~NameTaken(users, name)
    /\ users' = [users EXCEPT ![nextUser] = XodimRow(name, chat)]
    /\ nextUser' = nextUser + 1
    /\ webops' = webops + 1
    /\ UNCHANGED <<tasks, nextTask, webFrame, editedWithFlag, missed>>
    /\ UNCHANGED auxVars

\* POST /edit_xodim/<id>: a login other than the row's own that another row
\* has is refused, else UPDATE users SET username = ?, ...,
\* telegram_chat_id = ?
edit_xodim(u, name, chat) ==
    /\ Serving /\ webops < MaxWebOps /\ StoreWritable
    /\ users[u] # NoUser /\ users[u].role = "xodim"
    /\ name = users[u].username \/ ~NameTaken(users, name)
    /\ users' = [users EXCEPT ![u].username = name,
                              ![u].telegram_chat_id = chat]
    /\ webops' = webops + 1
    /\ UNCHANGED <<tasks, nextTask, nextUser, webFrame, editedWithFlag, missed>>
    /\ UNCHANGED auxVars

\* POST /delete_xodim/<id>: DELETE FROM users WHERE id = ? AND role = "xodim"
delete_xodim(u) ==
    /\ Serving /\ webops < MaxWebOps /\ StoreWritable
    /\ users[u] # NoUser /\ users[u].role = "xodim"
    /\ users' = [users EXCEPT ![u] = NoUser]
    /\ deletedUsers' = deletedUsers \cup {u}
    /\ webops' = webops + 1
    /\ UNCHANGED <<tasks, nextTask, nextUser, webFrame, editedWithFlag, missed>>
    /\ UNCHANGED <<zoneVars, flaggedAtEdit>>

\* POST /change_profile by the boss logged in as user u with a new login:
\* refused when another row has it, else UPDATE users SET username = ?
change_profile(u, name) ==
    /\ Serving /\ webops < MaxWebOps /\ StoreWritable
    /\ users[u] # NoUser /\ users[u].role = "boss"
    /\ name # users[u].username
    /\ ~NameTaken(users, name)
    /\ users' = [users EXCEPT ![u].username = name]
    /\ webops' = webops + 1
    /\ UNCHANGED <<tasks, nextTask, nextUser, webFrame, editedWithFlag, missed>>
    /\ UNCHANGED auxVars

\* POST /add_task: INSERT INTO tasks (title, description, assigned_to, deadline);
\* the three flags take their column default 0, status 'pending'
add_task(a, d) ==
    /\ Serving /\ webops < MaxWebOps /\ StoreWritable
    /\ nextTask \in TaskIds
    /\ tasks' = [tasks EXCEPT ![nextTask] = NewTask(a, d)]
    /\ nextTask' = nextTask + 1
    /\ webops' = webops + 1
    /\ UNCHANGED <<users, nextUser, webFrame, editedWithFlag, missed>>
    /\ UNCHANGED auxVars

\* an edit that also clears the three flags
EditedTaskResetFlags(r, a, d) ==
    [r EXCEPT !.assigned_to = a, !.deadline = d,
              !.reminder_2h_sent = FALSE, !.reminder_30m_sent = FALSE,
              !.reminder_5m_sent = FALSE]

\* an edit that clears the flags when it changes the deadline
EditedTaskNewDeadlineResets(r, a, d) ==
    IF d = r.deadline THEN [r EXCEPT !.assigned_to = a]
    ELSE [r EXCEPT !.assigned_to = a, !.deadline = d,
                   !.reminder_2h_sent = FALSE,
                   !.reminder_30m_sent = FALSE,
                   !.reminder_5m_sent = FALSE]

\* UPDATE tasks SET title = ?, description = ?, assigned_to = ?, deadline = ?
EditedTask(r, a, d) == [r EXCEPT !.assigned_to = a, !.deadline = d]

\* POST /edit_task/<id>
edit_task(id, a, d) ==
    /\ Serving /\ webops < MaxWebOps /\ StoreWritable
    /\ tasks[id] # NoTask
    /\ tasks' = [tasks EXCEPT ![id] = EditedTask(tasks[id], a, d)]
    /\ editedWithFlag' = (editedWithFlag \/ AnyFlag(tasks[id]))
    /\ missed' = IF d = tasks[id].deadline THEN missed
                 ELSE {m \in missed : m[1] # id}
    /\ flaggedAtEdit' =
          IF d = tasks[id].deadline /\ a = tasks[id].assigned_to
          THEN flaggedAtEdit
          ELSE flaggedAtEdit \cup
                  {<<id, T>> : T \in {U \in Thresholds : Flag(tasks[id], U)}}
    /\ webops' = webops + 1
    /\ UNCHANGED <<users, nextTask, nextUser, webFrame>>
    /\ UNCHANGED <<zoneVars, deletedUsers>>

\* POST /complete_task/<id> by the assignee:
\* UPDATE tasks SET status = 'completed', completion_note, completed_at
complete_task(id) ==
    /\ Serving /\ webops < MaxWebOps /\ StoreWritable
    /\ tasks[id] # NoTask
    /\ tasks' = [tasks EXCEPT ![id].status = "completed"]
    /\ editedWithFlag' = (editedWithFlag \/ AnyFlag(tasks[id]))
    /\ webops' = webops + 1
    /\ UNCHANGED <<users, nextTask, nextUser, webFrame, missed>>
    /\ UNCHANGED auxVars

\* POST /delete_task/<id>: DELETE FROM tasks WHERE id = ?
delete_task(id) ==
    /\ Serving /\ webops < MaxWebOps /\ StoreWritable
    /\ tasks[id] # NoTask
    /\ tasks' = [tasks EXCEPT ![id] = NoTask]
    /\ webops' = webops + 1
    /\ UNCHANGED <<users, nextTask, nextUser, webFrame, editedWithFlag, missed>>
    /\ UNCHANGED auxVars

\* ------------------------------------------------------------------- Next
\* one lifetime of the process: the main thread calls start_reminder_thread
\* once, then requests are served while the loop runs
\* (the request handlers have their common guard tested before their inputs
\* are enumerated)
Next ==
    \/ start_reminder_thread_acquire(MainCaller)
    \/ start_reminder_thread_test(MainCaller)
    \/ start_reminder_thread_start(MainCaller)
    \/ start_reminder_thread_raise(MainCaller)
    \/ start_reminder_thread_set(MainCaller)
    \/ check_reminders_get_db
    \/ check_reminders_get_db_raise
    \/ check_reminders_select
    \/ check_reminders_select_raise
    \/ check_reminders_skip
    \/ check_reminders_send
    \/ check_reminders_send_raise
    \/ check_reminders_update
    \/ check_reminders_update_raise
    \/ check_reminders_commit
    \/ check_reminders_commit_raise
    \/ check_reminders_wake
    \/ gc_collect
    \/ Tick
    \/ /\ Serving /\ webops < MaxWebOps /\ StoreWritable
       /\ \E name \in XodimNames, chat \in {Null, Chat} : xodimlar(name, chat)
    \/ /\ Serving /\ webops < MaxWebOps /\ StoreWritable
       /\ \E u \in UserIds :
            \E name \in EditNames \cup {users[u].username},
               chat \in {Null, Chat} :
               edit_xodim(u, name, chat)
    \/ /\ Serving /\ webops < MaxWebOps /\ StoreWritable
       /\ \E u \in UserIds : delete_xodim(u)
    \/ /\ Serving /\ webops < MaxWebOps /\ StoreWritable
       /\ \E a \in Assignees, d \in Deadlines \cup {NoDeadline} : add_task(a, d)
    \/ /\ Serving /\ webops < MaxWebOps /\ StoreWritable
       /\ \E id \in TaskIds, a \in Assignees, d \in Deadlines \cup {NoDeadline} :
            edit_task(id, a, d)
    \/ /\ Serving /\ webops < MaxWebOps /\ StoreWritable
       /\ \E id \in TaskIds : complete_task(id)
    \/ /\ Serving /\ webops < MaxWebOps /\ StoreWritable
       /\ \E id \in TaskIds : delete_task(id)
    \/ /\ Serving /\ webops < MaxWebOps /\ StoreWritable
       /\ \E u \in UserIds, name \in BossNames : change_profile(u, name)

\* the same with the process terminated and started again at any point
NextRestart == Next \/ Restart

\* start_reminder_thread called by any number of threads of one process,
\* with the loop they start
NextGuard ==
    \/ \E c \in Callers : start_reminder_thread_acquire(c)
    \/ \E c \in Callers : start_reminder_thread_test(c)
    \/ \E c \in Callers : start_reminder_thread_start(c)
    \/ \E c \in Callers : start_reminder_thread_raise(c)
    \/ \E c \in Callers : start_reminder_thread_set(c)
    \/ check_reminders_get_db
    \/ check_reminders_select
    \/ check_reminders_commit
    \/ check_reminders_wake
    \/ Tick
    \/ Restart

Spec == Init /\ [][Next]_vars

SpecRestart == Init /\ [][NextRestart]_vars

SpecGuard == Init /\ [][NextGuard]_vars

\* --------------------------------------------- the scan on an arbitrary store
\* deadlines around every bound of the three windows, in seconds: 2 min,
\* 3 min -/+ 1 s ... 124.9 min, 125 min, 125 min + 1 s, 126 min
ScanDeadlines ==
    {2 * SecPerMin, W5mLo * SecPerMin - 1, W5mLo * SecPerMin,
     W5mHi * SecPerMin, W5mHi * SecPerMin + 1,
     W30mLo * SecPerMin - 1, W30mLo * SecPerMin, 30 * SecPerMin,
     W30mHi * SecPerMin, W30mHi * SecPerMin + 1,
     W2hLo * SecPerMin - 1, W2hLo * SecPerMin, 120 * SecPerMin,
     W2hHi * SecPerMin - 6, W2hHi * SecPerMin, W2hHi * SecPerMin + 1,
     126 * SecPerMin}

FlagSets == [reminder_2h_sent : BOOLEAN, reminder_30m_sent : BOOLEAN,
             reminder_5m_sent : BOOLEAN]

StoredTask(a, d, f) ==
    [status |-> "pending", assigned_to |-> a, deadline |-> d,
     reminder_2h_sent |-> f.reminder_2h_sent,
     reminder_30m_sent |-> f.reminder_30m_sent,
     reminder_5m_sent |-> f.reminder_5m_sent]

AllSent == [reminder_2h_sent |-> TRUE, reminder_30m_sent |-> TRUE,
            reminder_5m_sent |-> TRUE]

NoneSent == [reminder_2h_sent |-> FALSE, reminder_30m_sent |-> FALSE,
             reminder_5m_sent |-> FALSE]

\* The loop is running and about to scan a store that earlier requests and
\* cycles have left: task 1 with any deadline, assignee and flags, task 2
\* absent or due in two hours with no or all reminders sent.
InitScanWith(tok) ==
    /\ users = RunningStore.users
    /\ nextUser = RunningStore.nextUser
    /\ \E a \in Assignees, d \in ScanDeadlines, f \in FlagSets :
         \E t2 \in {NoTask, StoredTask(3, 120 * SecPerMin, NoneSent),
                     StoredTask(3, 120 * SecPerMin, AllSent)} :
            tasks = [i \in TaskIds |-> IF i = 1 THEN StoredTask(a, d, f) ELSE t2]
    /\ nextTask = 3
    /\ token = tok
    /\ clock = 0
    /\ reminder_thread_started = TRUE
    /\ reminder_lock = NoOwner
    /\ cpc = [c \in Callers |-> IF c = MainCaller THEN "done" ELSE "call"]
    /\ loops = 1
    /\ pc = "top"
    /\ conn = "none"
    /\ staleLock = FALSE
    /\ pendingLock = FALSE
    /\ uncommitted = {}
    /\ now = 0
    /\ snapshot = <<>>
    /\ idx = 1
    /\ curT = Null
    /\ cycles = 0 /\ failures = 0 /\ crashes = 0 /\ webops = 0
    /\ cycleSends = <<>>
    /\ sentOK = {} /\ resent = {}
    /\ okBeforeCrash = {} /\ resentAfterRestart = {}
    /\ pendingAtScan = {}
    /\ sentNotPending = {}
    /\ failedPrev = {}
    /\ passEnd = "none"
    /\ missedEver = {} /\ missed = {}
    /\ editedWithFlag = FALSE
    /\ flaggedAtEdit = {}
    /\ deletedUsers = {}
    /\ probe = NoProbe /\ classified = {} /\ overdueSeen = {}

\* the bot token is configured
InitScan == InitScanWith(TRUE)

\* the scheduler thread alone
NextScan ==
    \/ check_reminders_get_db
    \/ check_reminders_get_db_raise
    \/ check_reminders_select
    \/ check_reminders_select_raise
    \/ check_reminders_skip
    \/ check_reminders_send
    \/ check_reminders_send_raise
    \/ check_reminders_update
    \/ check_reminders_update_raise
    \/ check_reminders_commit
    \/ check_reminders_commit_raise
    \/ check_reminders_wake
    \/ gc_collect

SpecScan == InitScan /\ [][NextScan]_vars

\* the stores of InitScan whose task 1 is due in two hours or in half an hour
InitLoop ==
    /\ InitScan
    /\ tasks[1].deadline \in {120 * SecPerMin, 30 * SecPerMin}

\* the scheduler thread keeps being scheduled: a statement that can run is
\* run, time.sleep(60) returns, a collectable connection is collected
SpecLoopFair == InitLoop /\ [][NextScan]_vars /\ WF_vars(NextScan)

\* the scheduler and the requests that change stored tasks; an edit hands
\* the task to the boss and moves its deadline
NextScanWeb ==
    \/ NextScan
    \/ \E id \in TaskIds : edit_task(id, 1, 250 * SecPerMin)
    \/ \E id \in TaskIds : complete_task(id)
    \/ \E id \in TaskIds : delete_task(id)

\* the store of InitScan with two tasks of user 3 due in two hours, no
\* reminder sent yet
InitWeb ==
    /\ InitScan
    /\ tasks = [i \in TaskIds |-> StoredTask(3, 120 * SecPerMin, NoneSent)]

SpecScanWeb == InitWeb /\ [][NextScanWeb]_vars

\* ------------------------------------- the deadline arithmetic on its own
\* the window whose bounds the if / elif / elif chain finds s seconds inside
WindowOf(s) ==
    IF In2h(s) THEN "2h"
    ELSE IF In30m(s) THEN "30m"
    ELSE IF In5m(s) THEN "5m"
    ELSE Null

\* the datetime of wall-clock value w with tzinfo k
Stamp(k, w) ==
    CASE k = "naive" -> Naive(w)
      [] k = "UTC+5" -> Aware(w, UZB_TIMEZONE)
      [] k = "UTC"   -> Aware(w, UTC)

\* clock readings of the zone: 09:00 and 23:00
ProbeNows == {9 * 3600, 23 * 3600}

\* distances of a deadline's wall-clock value from the clock reading: every
\* bound of the three windows, the reading itself and a minute either side
ProbeOffsets == ScanDeadlines \cup {0 - SecPerMin, 0 - 1, 0, 1, SecPerMin}

\* One deadline value and one clock reading; the program is not running.
InitZone ==
    /\ \E n \in ProbeNows, d \in ProbeOffsets : probe = [wall |-> n + d, now |-> n]
    /\ classified = {}
    /\ overdueSeen = {}
    /\ users = FirstStart.users
    /\ nextUser = FirstStart.nextUser
    /\ tasks = [i \in TaskIds |-> NoTask]
    /\ nextTask = 1
    /\ token = TRUE
    /\ clock = 0
    /\ reminder_thread_started = FALSE
    /\ reminder_lock = NoOwner
    /\ cpc = [c \in Callers |-> "call"]
    /\ loops = 0
    /\ pc = "idle"
    /\ conn = "none"
    /\ staleLock = FALSE
    /\ pendingLock = FALSE
    /\ uncommitted = {}
    /\ now = 0
    /\ snapshot = <<>>
    /\ idx = 1
    /\ curT = Null
    /\ cycles = 0 /\ failures = 0 /\ crashes = 0 /\ webops = 0
    /\ cycleSends = <<>>
    /\ sentOK = {} /\ resent = {}
    /\ okBeforeCrash = {} /\ resentAfterRestart = {}
    /\ pendingAtScan = {}
    /\ sentNotPending = {}
    /\ failedPrev = {}
    /\ passEnd = "none"
    /\ missedEver = {} /\ missed = {}
    /\ editedWithFlag = FALSE
    /\ flaggedAtEdit = {}
    /\ deletedUsers = {}

\* the scheduler's arithmetic on the deadline read back with tzinfo k:
\* time_left and the window it falls in
zone_check_reminders(k) ==
    /\ \A r \in classified : r.tz # k
    /\ LET s == time_left(Stamp(k, probe.wall), get_uzb_now(probe.now))
       IN classified' = classified \cup
                           {[tz |-> k, seconds |-> s, window |-> WindowOf(s)]}
    /\ UNCHANGED <<progVars, probe, overdueSeen>>

\* is_overdue on the deadline read back with tzinfo k
zone_is_overdue(k) ==
    /\ \A r \in overdueSeen : r.tz # k
    /\ overdueSeen' = overdueSeen \cup
          {[tz |-> k,
            overdue |-> is_overdue(Stamp(k, probe.wall),
                                   get_uzb_now(probe.now))]}
    /\ UNCHANGED <<progVars, probe, classified>>

NextZone ==
    \/ \E k \in TzKinds : zone_check_reminders(k)
    \/ \E k \in TzKinds : zone_is_overdue(k)

SpecZone == InitZone /\ [][NextZone]_vars

\* ------------------------------------------- the loop at a bounded pace
\* The longest time from the start of one scan to the start of the next, in
\* seconds: less than four minutes.
MaxScanGap == 4 * SecPerMin - 1

\* times from one scan to the next: the sleep alone, and the most
PacedGaps == {SleepSeconds, MaxScanGap}

\* the latest deadline of InitPaced: the loop is observed until then
PacedHorizon == 130 * SecPerMin

\* seconds left to the deadline at the first scan after the task was created
\* with more than 125 minutes to go: the scan follows the creation by less
\* than MaxScanGap + 1 seconds
FirstScanLeft ==
    {W2hHi * SecPerMin - MaxScanGap + 1, W2hHi * SecPerMin,
     W2hHi * SecPerMin + 1, 130 * SecPerMin}

\* The loop is about to scan a store with one pending task of a user with an
\* address, no reminder sent.
InitPaced ==
    /\ users = RunningStore.users
    /\ nextUser = RunningStore.nextUser
    /\ \E d \in FirstScanLeft :
          tasks = [i \in TaskIds |->
                      IF i = 1 THEN StoredTask(3, d, NoneSent) ELSE NoTask]
    /\ nextTask = 2
    /\ token = TRUE
    /\ clock = 0
    /\ reminder_thread_started = TRUE
    /\ reminder_lock = NoOwner
    /\ cpc = [c \in Callers |-> IF c = MainCaller THEN "done" ELSE "call"]
    /\ loops = 1
    /\ pc = "top"
    /\ conn = "none"
    /\ staleLock = FALSE
    /\ pendingLock = FALSE
    /\ uncommitted = {}
    /\ now = 0
    /\ snapshot = <<>>
    /\ idx = 1
    /\ curT = Null
    /\ cycles = 0 /\ failures = 0 /\ crashes = 0 /\ webops = 0
    /\ cycleSends = <<>>
    /\ sentOK = {} /\ resent = {}
    /\ okBeforeCrash = {} /\ resentAfterRestart = {}
    /\ pendingAtScan = {}
    /\ sentNotPending = {}
    /\ failedPrev = {}
    /\ passEnd = "none"
    /\ missedEver = {} /\ missed = {}
    /\ editedWithFlag = FALSE
    /\ flaggedAtEdit = {}
    /\ deletedUsers = {}
    /\ probe = NoProbe /\ classified = {} /\ overdueSeen = {}

\* a cycle of a loop observed until the deadline has passed
check_reminders_get_db_paced == GetDb(MaxPacedCycles)



\* a send the channel accepts
check_reminders_send_ok ==
    /\ check_reminders_send
    /\ cycleSends'[Len(cycleSends')].ok

\* time.sleep(60) returns and the next scan starts: the clock has moved on
\* by the sleep and whatever the scan took, MaxScanGap at most
check_reminders_wake_paced ==
    /\ pc = "sleeping"
    /\ clock < PacedHorizon
    /\ \E g \in PacedGaps : clock' = clock + g
    /\ pc' = "top"
    /\ UNCHANGED <<storeVars, token, guardVars, conn, staleLock, pendingLock, uncommitted,
                   now, snapshot, idx, curT, cycles, failures, crashes, webops,
                   histVars, editedWithFlag, missed>>
    /\ UNCHANGED auxVars

\* the scheduler thread when every send succeeds and no statement raises
NextPaced ==
    \/ check_reminders_get_db_paced
    \/ check_reminders_select
    \/ check_reminders_skip
    \/ check_reminders_send_ok
    \/ check_reminders_update
    \/ check_reminders_commit
    \/ check_reminders_wake_paced

\* the thread keeps being scheduled
SpecPacedFair == InitPaced /\ [][NextPaced]_vars /\ WF_vars(NextPaced)

\* ------------------------------------------------ no bot token configured
\* TELEGRAM_BOT_TOKEN is the empty string the environment lookup defaults to
InitNoToken == InitScanWith(FALSE)

\* the scheduler thread: the statements it reaches when no send succeeds
NextNoToken ==
    \/ check_reminders_get_db
    \/ check_reminders_get_db_raise
    \/ check_reminders_select
    \/ check_reminders_select_raise
    \/ check_reminders_skip
    \/ check_reminders_send
    \/ check_reminders_commit
    \/ check_reminders_commit_raise
    \/ check_reminders_wake

SpecNoToken == InitNoToken /\ [][NextNoToken]_vars

TypeOK ==
    /\ pc \in {"idle", "top", "select", "loop", "update", "sleeping", "exited"}
    /\ passEnd \in {"none", "running", "commit", "get_db", "select", "row",
                    "commit_raise"}
    /\ conn \in {"none", "open", "txn"}
    /\ staleLock \in BOOLEAN
    /\ pendingLock \in BOOLEAN
    /\ nextUser \in 1..(MaxUserId + 1)
    /\ deletedUsers \subseteq UserIds
    /\ clock \in Instants
    /\ idx \in 1..(2 * Cardinality(TaskIds) + 1)
    /\ uncommitted \subseteq (TaskIds \X Thresholds)

\* ----------------------------------------------------------------- claims
InWindow(T, s) ==
    CASE T = "2h"  -> In2h(s)
      [] T = "30m" -> In30m(s)
      [] T = "5m"  -> In5m(s)

SentInCycle(id, T) ==
    \E j \in DOMAIN cycleSends : cycleSends[j].id = id /\ cycleSends[j].T = T

\* the last cycle was left by an exception while row idx was processed
CycleAborted == pc = "sleeping" /\ passEnd = "row" /\ idx <= Len(snapshot)

\* the last cycle ran to its commit
CycleCompleted == pc = "sleeping" /\ passEnd = "commit" /\ conn = "none"

\* C1: as long as the process is not terminated, send is never invoked for a
\* (task, threshold) for which an earlier send returned success, also when a
\* store operation of a cycle fails.
C1_AtMostOneSuccess == crashes = 0 => resent = {}

\* C2: whatever the interleaving of the callers of start_reminder_thread, at
\* most one check_reminders loop is started, exactly one once a caller has
\* returned or the flag is set, and a caller between the test and the set of
\* the flag holds reminder_lock.
C2_ExactlyOneLoop ==
    /\ loops <= 1
    /\ reminder_thread_started => loops = 1
    /\ \A c \in Callers :
         /\ cpc[c] = "done" => loops = 1
         /\ cpc[c] \in {"test", "start", "set"} => reminder_lock = c

C2_Witness ==
    /\ \A c \in Callers : cpc[c] = "done"
    /\ loops = 1

\* C3: a sent flag, written in the open transaction or committed, is true
\* only if an earlier send for that task and threshold returned true.
C3_FlagImpliesDelivered ==
    \A i \in TaskIds, T \in Thresholds :
        (Flag(tasks[i], T) \/ <<i, T>> \in uncommitted) => <<i, T>> \in sentOK

C3_Witness ==
    \E i \in TaskIds, T \in Thresholds : Flag(tasks[i], T)

\* C4: when a cycle has ended, every task whose send for T failed in the
\* previous cycle and whose row is again in the snapshot with an address and
\* inside T's window has had send invoked for T in this cycle.
C4_RetriedNextCycle ==
    (pc = "sleeping" /\ passEnd # "get_db") =>
        \A k \in DOMAIN snapshot, T \in Thresholds :
            ( /\ <<snapshot[k].id, T>> \in failedPrev
              /\ snapshot[k].telegram_chat_id # Null
              /\ InWindow(T, SecondsLeft(snapshot[k], now)) )
            => SentInCycle(snapshot[k].id, T)

\* C5: when processing one row raises, every later row of the same snapshot
\* that is eligible for a reminder is still notified in that cycle.
C5_CycleNotAborted ==
    CycleAborted =>
        \A k \in (idx + 1)..Len(snapshot) :
            Candidate(snapshot[k], now) # Null
            => SentInCycle(snapshot[k].id, Candidate(snapshot[k], now))

\* C6: with no store failure at all, after the process is terminated and
\* started again no send is invoked for a (task, threshold) whose send had
\* succeeded before the termination.
C6_AtMostOnceAcrossRestart == failures = 0 => resentAfterRestart = {}

\* C7 (as claimed): no send is ever invoked for a task that is committed as
\* completed or deleted.
C7_NoSendOnceCompleted == sentNotPending = {}

\* C7 (amended): every send of a cycle is for a task that was pending when
\* the cycle's SELECT ran; a task completed or deleted before the SELECT gets
\* no send in that cycle.
C7_NoSendAfterLaterSelect ==
    \A j \in DOMAIN cycleSends : cycleSends[j].id \in pendingAtScan

C7_Witness ==
    /\ CycleCompleted
    /\ \E i \in TaskIds :
         /\ tasks[i].status = "completed"
         /\ i \notin pendingAtScan
         /\ tasks[i].deadline # NoDeadline
         /\ Candidate(Row(tasks, users, i), now) # Null

\* C8: a committed sent flag of an existing task row never goes back from
\* true to false, whatever step is taken.
C8_FlagsMonotonic ==
    [][\A i \in TaskIds, T \in Thresholds :
          (tasks[i] # NoTask /\ Flag(tasks[i], T) /\ tasks'[i] # NoTask)
          => Flag(tasks'[i], T)]_vars

C8_Witness ==
    /\ editedWithFlag
    /\ \E i \in TaskIds, T \in Thresholds : Flag(tasks[i], T)

\* C9: a row read with a NULL address gets no send and no flag update in its
\* cycle, whatever its remaining time.
C9_NoAddressNoSend ==
    \A k \in DOMAIN snapshot :
        snapshot[k].telegram_chat_id = Null =>
            /\ \A j \in DOMAIN cycleSends : cycleSends[j].id # snapshot[k].id
            /\ \A T \in Thresholds : <<snapshot[k].id, T>> \notin uncommitted

C9_Witness ==
    /\ CycleCompleted
    /\ \E k \in DOMAIN snapshot :
         /\ snapshot[k].telegram_chat_id = Null
         /\ Branch(snapshot[k], now) # Null

\* C10: within one cycle send is invoked at most once per task, and for the
\* first branch of the 2h, 30m, 5m chain that matches with its flag false.
C10_OneSendPerTaskPerCycle ==
    \A j \in DOMAIN cycleSends :
        /\ \A j2 \in DOMAIN cycleSends :
              cycleSends[j2].id = cycleSends[j].id => j2 = j
        /\ \E k \in DOMAIN snapshot :
              /\ snapshot[k].id = cycleSends[j].id
              /\ cycleSends[j].T = Branch(snapshot[k], now)

C10_Witness ==
    /\ CycleCompleted
    /\ Len(cycleSends) = 2

\* the sends of the current cycle made for task id
SendsFor(id) == {j \in DOMAIN cycleSends : cycleSends[j].id = id}

\* C11: when a cycle has completed, a row that was read with an address,
\* inside window T and with flag T false has had exactly one send, made for T;
\* if that send returned true and the task still exists, its flag T is true
\* and its other two flags have the values the cycle read.
C11_SuccessMarksOneFlag ==
    CycleCompleted =>
        \A k \in DOMAIN snapshot, T \in Thresholds :
            ( /\ snapshot[k].telegram_chat_id # Null
              /\ InWindow(T, SecondsLeft(snapshot[k], now))
              /\ ~Flag(snapshot[k], T) )
            => LET id == snapshot[k].id IN
               /\ Cardinality(SendsFor(id)) = 1
               /\ \A j \in SendsFor(id) :
                     /\ cycleSends[j].T = T
                     /\ (cycleSends[j].ok /\ tasks[id] # NoTask) =>
                           /\ Flag(tasks[id], T)
                           /\ \A T2 \in Thresholds \ {T} :
                                 Flag(tasks[id], T2) = Flag(snapshot[k], T2)

C11_Witness ==
    /\ CycleCompleted
    /\ \E j \in DOMAIN cycleSends :
         /\ cycleSends[j].ok
         /\ cycleSends[j].T = "30m"
         /\ tasks[cycleSends[j].id] # NoTask
         /\ tasks[cycleSends[j].id].reminder_30m_sent
         /\ ~tasks[cycleSends[j].id].reminder_5m_sent

\* the classification the windows are specified to have, s in seconds
SpecifiedWindow(s) ==
    IF 115 * 60 <= s /\ s <= 125 * 60 THEN "2h"
    ELSE IF 25 * 60 <= s /\ s <= 35 * 60 THEN "30m"
    ELSE IF 3 * 60 <= s /\ s <= 7 * 60 THEN "5m"
    ELSE Null

Unflagged(row) ==
    [row EXCEPT !.reminder_2h_sent = FALSE, !.reminder_30m_sent = FALSE,
                !.reminder_5m_sent = FALSE]

\* C12: for every row a scan reads, the branch the if/elif chain takes with
\* no flag set is the 2-hour one iff 115 <= minutes_left <= 125, the
\* 30-minute one iff 25 <= minutes_left <= 35, the 5-minute one iff
\* 3 <= minutes_left <= 7 and none otherwise; at most one of the three window
\* tests is true; 120 and 124.9 minutes are classified 2-hour, 126 minutes
\* nothing, 30 minutes 30-minute.
C12_WindowClassification ==
    \A k \in DOMAIN snapshot :
        LET s == SecondsLeft(snapshot[k], now) IN
        /\ Branch(Unflagged(snapshot[k]), now) = SpecifiedWindow(s)
        /\ Cardinality({T \in Thresholds : InWindow(T, s)}) <= 1
        /\ \A T \in Thresholds : InWindow(T, s) <=> SpecifiedWindow(s) = T
        /\ s \in {120 * 60, 7494} => In2h(s)
        /\ s = 126 * 60 => ~In2h(s) /\ ~In30m(s) /\ ~In5m(s)
        /\ s = 30 * 60 => In30m(s) /\ ~In2h(s)

C12_Witness ==
    /\ pc = "sleeping"
    /\ passEnd = "commit"
    /\ \E k \in DOMAIN snapshot :
         /\ SecondsLeft(snapshot[k], now) = W2hHi * SecPerMin
         /\ SentInCycle(snapshot[k].id, "2h")
    /\ \E k \in DOMAIN snapshot :
         /\ SecondsLeft(snapshot[k], now) = W2hHi * SecPerMin
         /\ snapshot[k].reminder_30m_sent

AllFlags(r) == r.reminder_2h_sent /\ r.reminder_30m_sent /\ r.reminder_5m_sent

AllTasksFlagged == \A i \in TaskIds : tasks[i] # NoTask => AllFlags(tasks[i])

\* C13: while every stored task has its three flags true, no step of a scan
\* invokes send, writes a flag or changes the task store, whatever the
\* remaining times are and however many cycles are run.
C13_ScanIdempotent ==
    [][AllTasksFlagged =>
          /\ tasks' = tasks
          /\ cycleSends' \in {cycleSends, <<>>}
          /\ uncommitted' = {}]_vars

C13_Witness ==
    /\ CycleCompleted
    /\ cycles >= 2
    /\ cycleSends = <<>>
    /\ AllTasksFlagged
    /\ \A i \in TaskIds : tasks[i] # NoTask
    /\ \E k \in DOMAIN snapshot :
         /\ ~Skip(snapshot[k])
         /\ Branch(Unflagged(snapshot[k]), now) # Null

\* C14 (as claimed): once a scan has read a task below window T with flag T
\* false, no later send for T is invoked for the task and its flag T stays
\* false for as long as the task record exists.
C14_PermanentlyMissed ==
    \A m \in missedEver :
        /\ ~SentInCycle(m[1], m[2])
        /\ tasks[m[1]] # NoTask => ~Flag(tasks[m[1]], m[2])

\* C14 (amended): once a scan has read a task below window T with flag T
\* false, then as long as no edit_task changes the task's deadline no send
\* for T is invoked for the task, no flag T is written for it and its flag T
\* stays false.
C14_MissedWhileDeadlineKept ==
    \A m \in missed :
        /\ ~SentInCycle(m[1], m[2])
        /\ m \notin uncommitted
        /\ tasks[m[1]] # NoTask => ~Flag(tasks[m[1]], m[2])

C14_Witness ==
    /\ CycleCompleted
    /\ cycles >= 2
    /\ \E k \in DOMAIN snapshot :
         /\ <<snapshot[k].id, "2h">> \in missed
         /\ <<snapshot[k].id, "2h">> \in failedPrev
         /\ snapshot[k].telegram_chat_id # Null

Horizon == 128 * SecPerMin     \* the last instant of Instants

\* C15 (as claimed): the started loop is always at one of its statements (it
\* has not exited), and from every such state with cycle n the latest, cycle n + 1
\* begins (the loop enters its try block again), whether cycle n completed
\* or was cut short by an exception of get_db, the SELECT, an UPDATE or the
\* commit (as long as the clock and the cycle count are inside the explored
\* range).
C15_LoopNeverEnds ==
    /\ [](pc \in {"top", "select", "loop", "update", "sleeping"})
    /\ \A n \in 0..(MaxCycles - 1) :
          (cycles = n /\ (pc = "top" \/ clock < Horizon)) ~> (cycles = n + 1)


\* C16: whenever the loop is in its inter-cycle sleep the scheduler holds no
\* store connection and no open transaction, and no connection it abandoned
\* still holds the write lock.
C16_NoConnectionWhileSleeping ==
    pc = "sleeping" => (conn = "none" /\ ~staleLock)

\* C17: when the row of the task whose send just succeeded has been deleted
\* since the SELECT, the UPDATE (unless the store itself fails) writes
\* nothing, leaves every task as it is and the loop goes on to the next row;
\* no step of the scheduler brings a deleted task back.
C17_DeletedRowUpdateNoOp ==
    [][ /\ ( /\ pc = "update"
             /\ tasks[snapshot[idx].id] = NoTask
             /\ ~staleLock
             /\ failures' = failures
             /\ pc' # "update" )
           => ( /\ pc' = "loop"
                /\ idx' = idx + 1
                /\ tasks' = tasks
                /\ uncommitted' = uncommitted )
        /\ webops' = webops =>
              \A i \in TaskIds : tasks[i] = NoTask => tasks'[i] = NoTask ]_vars

C17_Witness ==
    /\ pc = "loop"
    /\ conn = "txn"
    /\ uncommitted = {}
    /\ idx <= Len(snapshot)
    /\ \E j \in DOMAIN cycleSends :
         cycleSends[j].ok /\ tasks[cycleSends[j].id] = NoTask

\* flags of task i that differ between two stores
ChangedFlags(ts, ts2, i) == {T \in Thresholds : Flag(ts[i], T) # Flag(ts2[i], T)}

\* C18: a step of the scheduler creates and deletes no task and leaves the
\* status, deadline and assignee of every task as the requests committed
\* them; per task it changes at most one flag, from false to true, and only
\* the flag of a write the cycle made for that task.
C18_WriteTouchesOneFlag ==
    [][webops' = webops =>
          \A i \in TaskIds :
              /\ (tasks[i] = NoTask) <=> (tasks'[i] = NoTask)
              /\ tasks'[i].status = tasks[i].status
              /\ tasks'[i].deadline = tasks[i].deadline
              /\ tasks'[i].assigned_to = tasks[i].assigned_to
              /\ Cardinality(ChangedFlags(tasks, tasks', i)) <= 1
              /\ \A T \in ChangedFlags(tasks, tasks', i) :
                    /\ Flag(tasks'[i], T)
                    /\ <<i, T>> \in uncommitted]_vars

C18_Witness ==
    /\ conn = "txn"
    /\ \E k \in DOMAIN snapshot, T \in Thresholds :
         LET i == snapshot[k].id IN
         /\ <<i, T>> \in uncommitted
         /\ tasks[i] # NoTask
         /\ tasks[i].deadline # snapshot[k].deadline
    /\ \E i \in TaskIds : tasks[i].status = "completed"

\* C19: a request never changes a flag of a task it leaves in the store, and
\* a task that a request creates has its three flags false.
C19_HandlersLeaveFlags ==
    [][webops' # webops =>
          \A i \in TaskIds :
              /\ (tasks[i] # NoTask /\ tasks'[i] # NoTask) =>
                    ChangedFlags(tasks, tasks', i) = {}
              /\ (tasks[i] = NoTask /\ tasks'[i] # NoTask) =>
                    ~AnyFlag(tasks'[i])]_vars

C19_Witness ==
    /\ editedWithFlag
    /\ nextTask > 1
    /\ \E i \in TaskIds :
         /\ tasks[i].status = "completed"
         /\ AnyFlag(tasks[i])

\* rows of the snapshot the for loop has dealt with
Processed == {k \in DOMAIN snapshot : k < idx \/ (pc = "update" /\ k = idx)}

\* C20: for every row a cycle has dealt with and every threshold T, send was
\* invoked for T exactly when the row has an address, is inside T's window
\* and has flag T false, whatever the other two flags are.
C20_FlagsIndependent ==
    \A k \in Processed, T \in Thresholds :
        SentInCycle(snapshot[k].id, T) <=>
            ( /\ snapshot[k].telegram_chat_id # Null
              /\ InWindow(T, SecondsLeft(snapshot[k], now))
              /\ ~Flag(snapshot[k], T) )

C20_Witness ==
    /\ CycleCompleted
    /\ \E k \in DOMAIN snapshot :
         LET i == snapshot[k].id IN
         /\ ~snapshot[k].reminder_2h_sent
         /\ ~snapshot[k].reminder_30m_sent
         /\ ~snapshot[k].reminder_5m_sent
         /\ \E j \in SendsFor(i) : cycleSends[j].T = "5m" /\ cycleSends[j].ok
         /\ tasks[i].reminder_5m_sent
         /\ ~tasks[i].reminder_2h_sent
         /\ ~tasks[i].reminder_30m_sent

\* C21: scans are strictly sequential.  There is one loop thread; a scan
\* cycle (one pass through the try block) begins only at the top of the
\* loop and every pass that leaves the top is counted; the top of the loop
\* is reached only from the start of the thread or from one time.sleep(60)
\* that follows the end of the previous cycle, whether that cycle reached
\* its commit or its except clause (from get_db, the SELECT, an UPDATE or
\* the commit); every cycle ends in that sleep, unless the except clause
\* itself raises and the thread ends, after which no cycle begins; the sleep
\* leads nowhere but to the top; a step of the thread makes at most one send.
C21_ScansSequential ==
    [][ /\ loops' <= 1
        /\ (cycles' # cycles =>
              /\ pc = "top" /\ cycles' = cycles + 1
              /\ pc' \in {"select", "sleeping", "exited"})
        /\ ((pc = "top" /\ pc' # pc) => cycles' = cycles + 1)
        /\ ((pc' = "select" /\ pc # "select") => pc = "top")
        /\ ((pc = "sleeping" /\ pc' # pc) => pc' = "top")
        /\ ((pc' = "top" /\ pc # "top") =>
               \/ pc = "idle"
               \/ (pc = "sleeping" /\ clock' >= clock + SleepSeconds))
        /\ ((pc \in {"top", "select", "loop", "update"}
               /\ pc' \notin {"select", "loop", "update"}
               /\ pc' # pc) => pc' \in {"sleeping", "exited"})
        /\ (pc = "exited" => pc' = "exited")
        /\ Len(cycleSends') <= Len(cycleSends) + 1 ]_vars

\* a scan that sends, started after a scan that ended in the except clause
C21_Witness ==
    /\ cycles >= 2
    /\ failures >= 1
    /\ pc = "update"
    /\ Len(cycleSends) >= 1

\* C22: a deadline without tzinfo is taken as being in UTC+5.  For every
\* wall-clock value, the remaining time and the window the scheduler computes
\* for the naive deadline, and is_overdue's answer for it, are those of the
\* same wall-clock value tagged UTC+5.
C22_NaiveIsZoneTime ==
    /\ \A a \in classified, b \in classified :
          (a.tz = "naive" /\ b.tz = "UTC+5") =>
              (a.seconds = b.seconds /\ a.window = b.window)
    /\ \A a \in overdueSeen, b \in overdueSeen :
          (a.tz = "naive" /\ b.tz = "UTC+5") => a.overdue = b.overdue

\* a deadline inside the 2-hour window when naive and when tagged UTC+5, and
\* outside it when tagged UTC; is_overdue has answered for all three
C22_Witness ==
    /\ \E a \in classified, b \in classified, c \in classified :
          /\ a.tz = "naive" /\ b.tz = "UTC+5" /\ c.tz = "UTC"
          /\ a.window = "2h" /\ b.window = "2h" /\ c.window = Null
    /\ Cardinality(overdueSeen) = 3

\* some reminder flag of a task of both stores is set in ts2 and not in ts
FlagStored(ts, ts2) ==
    \E i \in TaskIds, T \in Thresholds :
        /\ ts[i] # NoTask /\ ts2[i] # NoTask
        /\ ~Flag(ts[i], T) /\ Flag(ts2[i], T)

\* C23: the flag updates of a cycle become durable together at the commit
\* that ends the cycle.  Stored flags change only in the commit step, which
\* applies every update of the cycle; as long as updates are uncommitted,
\* while the cycle runs and after it has ended in the except clause, none of
\* them is in the store; the step that enters the except clause, also when
\* the clause ends the thread, and the start of the next cycle leave the
\* stored flags as they are.
C23_DurableAtCommitOnly ==
    [][ /\ FlagStored(tasks, tasks') =>
              ( /\ pc = "loop" /\ idx > Len(snapshot)
                /\ pc' = "sleeping" /\ conn' = "none"
                /\ tasks' = ApplyFlags(tasks, uncommitted)
                /\ uncommitted' = {} )
        /\ \A key \in uncommitted' : ~Flag(tasks'[key[1]], key[2])
        /\ (pc # "sleeping" /\ pc' = "sleeping" /\ conn' # "none") =>
               tasks' = tasks
        /\ (pc # "exited" /\ pc' = "exited") => tasks' = tasks
        /\ cycles' # cycles => ~FlagStored(tasks, tasks') ]_vars

\* a cycle that ended in the except clause after a send had succeeded and
\* its flag had been written: the flag is not in the store
C23_Witness ==
    /\ pc = "sleeping"
    /\ passEnd \in {"row", "commit_raise"}
    /\ conn = "txn"
    /\ \E key \in uncommitted :
         /\ \E j \in DOMAIN cycleSends :
               /\ cycleSends[j].id = key[1]
               /\ cycleSends[j].T = key[2]
               /\ cycleSends[j].ok
         /\ tasks[key[1]] # NoTask
         /\ ~Flag(tasks[key[1]], key[2])

\* C24: edit_task leaves the flags as they are, so a threshold T whose flag
\* was true when edit_task changed the task's deadline or assignee is not
\* notified for that task again: no later step invokes a send for it,
\* wherever the new deadline lies and whoever the task is assigned to.
C24_NoSendAfterEditWithFlag ==
    [][ Len(cycleSends') = Len(cycleSends) + 1 =>
           LET s == cycleSends'[Len(cycleSends')]
           IN <<s.id, s.T>> \notin flaggedAtEdit ]_vars

\* a cycle has read a task whose deadline an edit moved back into the window
\* of a threshold already notified: the row has an address and is inside the
\* window, and no send was invoked for it
C24_Witness ==
    /\ CycleCompleted
    /\ \E k \in DOMAIN snapshot, T \in Thresholds :
         /\ <<snapshot[k].id, T>> \in flaggedAtEdit
         /\ snapshot[k].telegram_chat_id # Null
         /\ InWindow(T, SecondsLeft(snapshot[k], now))
         /\ Flag(snapshot[k], T)
         /\ ~SentInCycle(snapshot[k].id, T)

\* C25: a task that stays pending with an address, is not edited and is
\* first scanned with the 2-hour window still ahead or open, in a loop whose
\* scans start less than four minutes apart, whose sends all succeed and
\* whose statements never raise: the three flags eventually are all true;
\* 30m is set only when 2h is set and 5m only when 30m is set; no send is
\* made a second time, so the task gets exactly three sends.
C25_AllThreeInOrder ==
    /\ <>( /\ AllFlags(tasks[1])
           /\ sentOK = {1} \X Thresholds
           /\ resent = {} )
    /\ [](resent = {})
    /\ [][ /\ (~tasks[1].reminder_30m_sent /\ tasks'[1].reminder_30m_sent)
                 => tasks[1].reminder_2h_sent
           /\ (~tasks[1].reminder_5m_sent /\ tasks'[1].reminder_5m_sent)
                 => tasks[1].reminder_30m_sent ]_vars

\* the third flag has just been committed after scans at the longest gap
C25_Witness ==
    /\ AllFlags(tasks[1])
    /\ CycleCompleted
    /\ Len(cycleSends) = 1
    /\ cycleSends[1].T = "5m"
    /\ sentOK = {1} \X Thresholds

\* a user whose row delete_xodim removed
Deleted(u) == u \in deletedUsers /\ users[u] = NoUser

\* a task the SELECT returns whose assignee has been deleted
Orphan(ts, i) ==
    ts[i] # NoTask /\ SelectWhere(ts[i]) /\ Deleted(ts[i].assigned_to)

\* C26: after delete_xodim a pending task still assigned to the removed id
\* is returned by every later SELECT with a NULL address; the loop passes
\* such a row without a send, without a flag update and without leaving the
\* cycle through the except clause, and no step changes the task's flags.
C26_OrphanTaskUntouched ==
    [][ /\ (pc = "select" /\ pc' = "loop") =>
              \A i \in TaskIds :
                 Orphan(tasks, i) =>
                    \E k \in DOMAIN snapshot' :
                       /\ snapshot'[k].id = i
                       /\ snapshot'[k].telegram_chat_id = Null
        /\ ( /\ pc = "loop" /\ idx <= Len(snapshot)
             /\ snapshot[idx].telegram_chat_id = Null
             /\ Orphan(tasks, snapshot[idx].id)
             /\ (idx' # idx \/ pc' # pc) ) =>
              ( /\ pc' = "loop" /\ idx' = idx + 1
                /\ cycleSends' = cycleSends
                /\ uncommitted' = uncommitted )
        /\ \A i \in TaskIds :
              ( /\ Orphan(tasks, i)
                /\ tasks'[i] # NoTask
                /\ \A k \in DOMAIN snapshot :
                      snapshot[k].id = i =>
                         snapshot[k].telegram_chat_id = Null ) =>
                 \A T \in Thresholds : Flag(tasks'[i], T) = Flag(tasks[i], T)
      ]_vars

\* a cycle has passed a task inside a window with its flag false whose
\* assignee, a user with an address, had been deleted: nothing was sent
C26_Witness ==
    /\ CycleCompleted
    /\ cycleSends = <<>>
    /\ \E k \in DOMAIN snapshot :
         /\ Orphan(tasks, snapshot[k].id)
         /\ snapshot[k].telegram_chat_id = Null
         /\ Branch(snapshot[k], now) # Null
         /\ ~AnyFlag(tasks[snapshot[k].id])

\* C27: reminder_thread_started is set only after thread.start() has
\* returned.  The flag is true only if a loop was started; when thread.start()
\* raises, the flag is false afterwards, no loop was added and the lock is
\* free; the lock is only ever held by a caller that is inside the with
\* block, so it is released by that caller's next steps and a later caller
\* can enter.
C27_FlagSetAfterStart ==
    [][ /\ reminder_thread_started' => loops' >= 1
        /\ \A c \in Callers :
              (cpc[c] = "start" /\ cpc'[c] = "raised") =>
                 /\ ~reminder_thread_started'
                 /\ loops' = loops
                 /\ reminder_lock' = NoOwner
        /\ \A c \in Callers :
              (cpc[c] # "set" /\ cpc'[c] = "set") => loops' = loops + 1
        /\ reminder_lock' # NoOwner =>
              cpc'[reminder_lock'] \in {"test", "start", "set"} ]_vars

\* thread.start() raised for one caller, and a later caller started the loop
C27_Witness ==
    /\ \E c \in Callers, c2 \in Callers :
          /\ cpc[c] = "raised"
          /\ cpc[c2] = "done"
    /\ loops = 1
    /\ reminder_thread_started
    /\ reminder_lock = NoOwner

\* the for loop has gone through every row of the snapshot
PassFinished ==
    /\ idx > Len(snapshot)
    /\ \/ pc = "loop"
       \/ pc = "sleeping" /\ passEnd \in {"commit", "commit_raise"}

\* C28: with no bot token every send returns false, so no flag UPDATE is
\* reached, no transaction is opened and no stored flag becomes true; and
\* every pass over a snapshot has invoked a send for every row that has an
\* address and is inside a window with that window's flag false, in every
\* cycle again.
C28_NoTokenNothingMarked ==
    [][ /\ ~FlagStored(tasks, tasks')
        /\ pc' # "update"
        /\ uncommitted' = {}
        /\ conn' # "txn"
        /\ sentOK' = {}
        /\ \A j \in DOMAIN cycleSends' : ~cycleSends'[j].ok
        /\ PassFinished' =>
              \A k \in DOMAIN snapshot' :
                 Candidate(snapshot'[k], now') # Null =>
                    \E j \in DOMAIN cycleSends' :
                       /\ cycleSends'[j].id = snapshot'[k].id
                       /\ cycleSends'[j].T = Candidate(snapshot'[k], now')
      ]_vars

\* a second cycle has sent again for a task and threshold whose send failed
\* in the cycle before; the flag is still false
C28_Witness ==
    /\ ~token
    /\ cycles >= 2
    /\ CycleCompleted
    /\ \E k \in DOMAIN snapshot, T \in Thresholds :
         /\ <<snapshot[k].id, T>> \in failedPrev
         /\ SentInCycle(snapshot[k].id, T)
         /\ ~Flag(tasks[snapshot[k].id], T)

====
